---- MODULE Spec2Model ----
(***************************************************************************)
(* Model of the shard-hash crate (src/shard-hash/src/lib.rs): ShardHasher, *)
(* a hasher bundled with a shard count, and ShardIterator, the iterator    *)
(* that turns (state, pos, size) into a sequence of shard IDs.             *)
(*                                                                         *)
(* A client owns one ShardHasher and up to two ShardIterators; every     *)
(* action is one call of a public function of the crate.  The build        *)
(* profile (overflow checks on, as in `cargo test`, or off, as in          *)
(* `cargo build --release`) is fixed when the program starts.              *)
(*                                                                         *)
(* u64 is modelled as the integers modulo 2^WordBits: TLC's integers are   *)
(* 32 bits wide, so the word is scaled down.  The only arithmetic of the   *)
(* crate that can leave the range is `pos - size` in ShardIterator::new.   *)
(* Vec::with_capacity is taken to succeed (sizes fit in memory).           *)
(***************************************************************************)
EXTENDS Integers, Sequences, FiniteSets, TLC

\* ------------------------------------------------------------------ bounds
WordBits == 16      \* width of the scaled-down u64
MaxCount == 3       \* largest shard count passed by the client
MaxSize  == 4       \* largest requested size passed by the client
MaxState == 7       \* largest hash state passed by the client
MaxPerm  == 4       \* largest shard count of the exhaustive census
ExtraCalls == 3     \* calls of next() a client makes beyond the shard count

Modulus == 2 ^ WordBits

Min2(a, b) == IF a < b THEN a ELSE b

States == 0 .. Min2(MaxState, Modulus - 1)
Counts == 0 .. Min2(MaxCount, Modulus - 1)
Sizes  == 0 .. Min2(MaxSize, Modulus - 1)
\* the iterators a client owns: one, or two driven side by side
Iters  == 1 .. 2

RECURSIVE Factorial(_)
Factorial(n) == IF n <= 1 THEN 1 ELSE n * Factorial(n - 1)

\* ------------------------------------------------------------ Option<u64>
None     == << >>
Some(v)  == << v >>
IsSome(o) == Len(o) = 1
Unwrap(o) == o[1]

\* ------------------------------------------------------------------ state
VARIABLES
    overflow_checks,  \* build profile: TRUE = arithmetic overflow panics
    sh,               \* the client's ShardHasher: [made, count, hasher]
    it,               \* it[i]: ShardIterator fields [state, pos, min, visited]
    status,           \* status[i]: "unbuilt", "live", "panic_new", "panic_next"
    args,             \* args[i]: the (state, pos, size) passed to new
    rets,             \* rets[i]: the values next() has returned, in order
    census            \* exhaustive driver: [count, key, collected]

vars == << overflow_checks, sh, it, status, args, rets, census >>

NoHasher   == [made |-> FALSE, count |-> 0, hasher |-> 0]
NoIterator == [state |-> 0, pos |-> 0, min |-> 0, visited |-> << >>]
NoArgs     == [state |-> 0, pos |-> 0, size |-> 0]
NoCensus   == [count |-> 0, key |-> 0, collected |-> << >>]

\* calls of next() the client makes on iterator i
MaxCalls(i) == args[i].pos + ExtraCalls

\* ------------------------------------------------- ShardIterator, as code
\* `pos - size` on u64: representable, or out of range
SubOverflows(pos, size) == size > pos

\* mutant: the lower limit is one too low
WrappingSubOffByOne(pos, size) == (pos - size + Modulus - 1) % Modulus

\* mutant: the subtraction saturates at zero
SaturatingSub(pos, size) == IF size > pos THEN 0 ELSE pos - size

\* `pos - size` with wrapping arithmetic (overflow checks disabled)
WrappingSub(pos, size) == (pos - size + Modulus) % Modulus

\* mutant: the radix starts at the requested size instead of the shard count
NewIteratorBySize(state, pos, size) ==
    [state |-> state, pos |-> size, min |-> 0, visited |-> << >>]

\* the struct ShardIterator::new returns
NewIterator(state, pos, size) ==
    [state |-> state, pos |-> pos, min |-> WrappingSub(pos, size), visited |-> << >>]

\* Vec::contains
Contains(visited, v) == \E k \in 1 .. Len(visited) : visited[k] = v

\* mutant: the base shard ID is drawn from a range one too wide
BaseShardWide(state, pos) == state % (pos + 1)

\* let mut ret = self.state % self.pos
BaseShard(state, pos) == state % pos

\* mutant: the state is not divided, every step reads the same digits
NextStateKeep(state, pos) == state

\* mutant: the remainder is kept instead of the quotient
NextStateRemainder(state, pos) == state % pos

\* self.state /= self.pos
NextState(state, pos) == state \div pos

\* mutant: the base shard ID is returned without looking at visited
DeriveNoScan(ret, visited) == ret

\* mutant: the scan advances by two
RECURSIVE DeriveStride(_, _)
DeriveStride(ret, visited) ==
    IF Contains(visited, ret) THEN DeriveStride(ret + 2, visited) ELSE ret

\* while self.visited.contains(&ret) { ret += 1 }
RECURSIVE Derive(_, _)
Derive(ret, visited) ==
    IF Contains(visited, ret) THEN Derive(ret + 1, visited) ELSE ret

\* number of `ret += 1` the loop executes
RECURSIVE DeriveSteps(_, _)
DeriveSteps(ret, visited) ==
    IF Contains(visited, ret) THEN 1 + DeriveSteps(ret + 1, visited) ELSE 0

\* mutant: the iterator stops one element early
ExhaustedEarly(self) == self.pos = self.min + 1

\* next() returns None without touching the iterator
Exhausted(self) == self.pos = self.min

\* next() on an iterator that is not exhausted: `state % pos` panics when pos = 0
DivByZero(self) == ~Exhausted(self) /\ self.pos = 0

\* the value next() returns when it returns Some
Emitted(self) == Derive(BaseShard(self.state, self.pos), self.visited)

\* mutant: the returned shard ID is not saved in visited
SteppedNoPush(self) ==
    [state   |-> NextState(self.state, self.pos),
     pos     |-> self.pos - 1,
     min     |-> self.min,
     visited |-> self.visited]

\* the iterator after a next() that returned Some
Stepped(self) ==
    [state   |-> NextState(self.state, self.pos),
     pos     |-> self.pos - 1,
     min     |-> self.min,
     visited |-> Append(self.visited, Emitted(self))]

\* size_hint
SizeHint(self) == << self.pos, Some(self.pos) >>

\* --------------------------------------------------------------- actions
\* ShardIterator::new(state, pos, size), the result bound to iterator i
Construct(i, state, pos, size) ==
    /\ status[i] = "unbuilt"
    /\ args' = [args EXCEPT ![i] = [state |-> state, pos |-> pos, size |-> size]]
    /\ IF SubOverflows(pos, size) /\ overflow_checks
       THEN /\ status' = [status EXCEPT ![i] = "panic_new"]
            /\ it' = it
       ELSE /\ status' = [status EXCEPT ![i] = "live"]
            /\ it' = [it EXCEPT ![i] = NewIterator(state, pos, size)]
    /\ UNCHANGED << overflow_checks, sh, rets, census >>

\* a direct call of ShardIterator::new
IterNew(i) ==
    \E state \in States, pos \in Counts, size \in Sizes :
        Construct(i, state, pos, size)

\* ShardHasher::new(count)
HasherNew ==
    /\ ~sh.made
    /\ \E count \in Counts :
           sh' = [made |-> TRUE, count |-> count, hasher |-> 0]
    /\ UNCHANGED << overflow_checks, it, status, args, rets, census >>

\* Hasher::write(bytes): the digest of DefaultHasher after the write is some u64
HasherWrite ==
    /\ sh.made
    /\ \E digest \in States : sh' = [sh EXCEPT !.hasher = digest]
    /\ UNCHANGED << overflow_checks, it, status, args, rets, census >>

\* Hasher::finish
Finish(h) == h.hasher

\* ShardHasher::into_sized_iter(size)
IntoSizedIter(i) ==
    /\ sh.made
    /\ \E size \in Sizes : Construct(i, Finish(sh), sh.count, size)

\* ShardHasher::into_iter()
IntoIter(i) ==
    /\ sh.made
    /\ Construct(i, Finish(sh), sh.count, sh.count)

\* mutant: the exhaustion test comes after the update of pos
IterNextLateCheck(i) ==
    /\ status[i] = "live"
    /\ Len(rets[i]) < MaxCalls(i)
    /\ IF Exhausted(it[i])
       THEN /\ rets' = [rets EXCEPT ![i] = Append(@, None)]
            /\ it' = [it EXCEPT ![i].pos = (@ - 1 + Modulus) % Modulus]
            /\ UNCHANGED status
       ELSE IF DivByZero(it[i])
       THEN /\ status' = [status EXCEPT ![i] = "panic_next"]
            /\ UNCHANGED << it, rets >>
       ELSE /\ rets' = [rets EXCEPT ![i] = Append(@, Some(Emitted(it[i])))]
            /\ it' = [it EXCEPT ![i] = Stepped(it[i])]
            /\ UNCHANGED status
    /\ UNCHANGED << overflow_checks, sh, args, census >>

\* mutant: visited is one buffer shared by all iterators
IterNextSharedVisited(i) ==
    LET all == it[1].visited \o it[2].visited
        ret == Derive(BaseShard(it[i].state, it[i].pos), all)
    IN  /\ status[i] = "live"
        /\ Len(rets[i]) < MaxCalls(i)
        /\ IF Exhausted(it[i])
           THEN /\ rets' = [rets EXCEPT ![i] = Append(@, None)]
                /\ UNCHANGED << it, status >>
           ELSE IF DivByZero(it[i])
           THEN /\ status' = [status EXCEPT ![i] = "panic_next"]
                /\ UNCHANGED << it, rets >>
           ELSE /\ rets' = [rets EXCEPT ![i] = Append(@, Some(ret))]
                /\ it' = [it EXCEPT ![i] =
                             [Stepped(it[i]) EXCEPT !.visited = Append(it[i].visited, ret)]]
                /\ UNCHANGED status
        /\ UNCHANGED << overflow_checks, sh, args, census >>

\* Iterator::next on iterator i
IterNext(i) ==
    /\ status[i] = "live"
    /\ Len(rets[i]) < MaxCalls(i)
    /\ IF Exhausted(it[i])
       THEN /\ rets' = [rets EXCEPT ![i] = Append(@, None)]
            /\ UNCHANGED << it, status >>
       ELSE IF DivByZero(it[i])
       THEN /\ status' = [status EXCEPT ![i] = "panic_next"]
            /\ UNCHANGED << it, rets >>
       ELSE /\ rets' = [rets EXCEPT ![i] = Append(@, Some(Emitted(it[i])))]
            /\ it' = [it EXCEPT ![i] = Stepped(it[i])]
            /\ UNCHANGED status
    /\ UNCHANGED << overflow_checks, sh, args, census >>

\* ------------------------------------------------------ the single client
Init ==
    /\ overflow_checks \in BOOLEAN
    /\ sh = NoHasher
    /\ it = [i \in Iters |-> NoIterator]
    /\ status = [i \in Iters |-> "unbuilt"]
    /\ args = [i \in Iters |-> NoArgs]
    /\ rets = [i \in Iters |-> << >>]
    /\ census = NoCensus

Next ==
    \/ HasherNew
    \/ HasherWrite
    \/ IntoSizedIter(1)
    \/ IntoIter(1)
    \/ IterNew(1)
    \/ IterNext(1)

Spec == Init /\ [][Next]_vars

\* `collect()` / `for_each` keep calling next() until it returns None
SpecFair == Spec /\ WF_vars(IterNext(1))

\* ------------------------------------------- the client with two iterators
\* One hasher (ShardHasher is Copy) turned into two iterators that are
\* driven in any interleaving, as in tests::successive.
InitPair ==
    /\ overflow_checks \in BOOLEAN
    /\ \E count \in Counts, digest \in States :
           sh = [made |-> TRUE, count |-> count, hasher |-> digest]
    /\ it = [i \in Iters |-> NoIterator]
    /\ status = [i \in Iters |-> "unbuilt"]
    /\ args = [i \in Iters |-> NoArgs]
    /\ rets = [i \in Iters |-> << >>]
    /\ census = NoCensus

NextPair ==
    \E i \in Iters :
        \/ IntoSizedIter(i)
        \/ IntoIter(i)
        \/ IterNext(i)

SpecPair == InitPair /\ [][NextPair]_vars

\* --------------------------------------------------- the exhaustive census
\* for key in 0 .. count! - 1:
\*     collected.push(ShardIterator::new(key, count, count).collect())
Last(s) == s[Len(s)]

\* the Vec that collect() builds from the values returned before None
Collected(rs) == [k \in 1 .. (Len(rs) - 1) |-> Unwrap(rs[k])]

CensusNew ==
    /\ census.key < Factorial(census.count)
    /\ Construct(1, census.key, census.count, census.count)

CensusNext ==
    /\ IF rets[1] = << >> THEN TRUE ELSE IsSome(Last(rets[1]))
    /\ IterNext(1)

CensusCollect ==
    /\ status[1] = "live"
    /\ rets[1] # << >>
    /\ Last(rets[1]) = None
    /\ census' = [census EXCEPT !.key = @ + 1,
                                !.collected = Append(@, Collected(rets[1]))]
    /\ it' = [it EXCEPT ![1] = NoIterator]
    /\ status' = [status EXCEPT ![1] = "unbuilt"]
    /\ args' = [args EXCEPT ![1] = NoArgs]
    /\ rets' = [rets EXCEPT ![1] = << >>]
    /\ UNCHANGED << overflow_checks, sh >>

InitCensus ==
    /\ overflow_checks \in BOOLEAN
    /\ sh = NoHasher
    /\ it = [i \in Iters |-> NoIterator]
    /\ status = [i \in Iters |-> "unbuilt"]
    /\ args = [i \in Iters |-> NoArgs]
    /\ rets = [i \in Iters |-> << >>]
    /\ \E count \in 1 .. MaxPerm :
           census = [count |-> count, key |-> 0, collected |-> << >>]

NextCensus ==
    \/ CensusNew
    \/ CensusNext
    \/ CensusCollect

SpecCensus == InitCensus /\ [][NextCensus]_vars

\* ------------------------------------------------- the pinned static tests
\* tests::iterator_7_1, iterator_7_3, iterator_7_7 and the first shard of five:
\* ShardIterator::new(2237, N, R), collected
PinnedState == 2237
PinnedCases == { << 7, 1 >>, << 7, 3 >>, << 7, 7 >>, << 5, 1 >> }

PinnedNew(i) ==
    \E c \in PinnedCases : Construct(i, PinnedState, c[1], c[2])

NextPinned ==
    \E i \in Iters :
        \/ PinnedNew(i)
        \/ IterNext(i)

SpecPinned == Init /\ [][NextPinned]_vars

\* ================================================================= claims
\* iterator i was built by ShardIterator::new(state, N, R) with 1 <= R <= N
Valid(i) ==
    /\ status[i] # "unbuilt"
    /\ 1 <= args[i].size
    /\ args[i].size <= args[i].pos

\* positions of rets[i] at which next() returned Some
SomeAt(i) == { j \in 1 .. Len(rets[i]) : IsSome(rets[i][j]) }

\* the indices iterator i has emitted so far, in order
Values(i) == [j \in 1 .. Cardinality(SomeAt(i)) |-> Unwrap(rets[i][j])]

\* next() on iterator i has returned None
Done(i) == \E j \in 1 .. Len(rets[i]) : rets[i][j] = None

\* C1: a generator built with 1 <= R <= N never returns the same shard ID
\* twice, after any number of next() calls.
C1_Distinct ==
    \A i \in Iters : Valid(i) =>
        \A j, k \in SomeAt(i) : j # k => rets[i][j] # rets[i][k]

\* a run in which every scan after the first collides: state 0, three emitted
C1_Witness ==
    /\ Valid(1)
    /\ args[1].state = 0
    /\ Cardinality(SomeAt(1)) = 3
    /\ it[1].visited = << 0, 1, 2 >>

\* C2: every index emitted by a generator built with 1 <= R <= N lies in
\* [0, N), at every step of the run.
C2_InRange ==
    \A i \in Iters : Valid(i) =>
        \A j \in SomeAt(i) :
            /\ 0 <= Unwrap(rets[i][j])
            /\ Unwrap(rets[i][j]) < args[i].pos

\* the scan has pushed a candidate of 1 up to N - 1 = 2
C2_Witness ==
    /\ Valid(1)
    /\ args[1] = [state |-> 4, pos |-> 3, size |-> 3]
    /\ rets[1] = << Some(1), Some(2), Some(0) >>

\* C3: for the same state and N, and R2 <= R1 <= N, the complete sequence for
\* R2 is the first R2 elements of the complete sequence for R1.
C3_Prefix ==
    \A a, b \in Iters :
        ( /\ status[a] = "live" /\ status[b] = "live"
          /\ args[a].state = args[b].state
          /\ args[a].pos = args[b].pos
          /\ args[b].size <= args[a].size
          /\ args[a].size <= args[a].pos
          /\ Done(a) /\ Done(b) )
        => Values(b) = SubSeq(Values(a), 1, args[b].size)

\* both runs complete, the shorter a proper non-trivial prefix, with a collision
C3_Witness ==
    /\ status[1] = "live" /\ status[2] = "live"
    /\ args[1] = [state |-> 3, pos |-> 3, size |-> 3]
    /\ args[2] = [state |-> 3, pos |-> 3, size |-> 2]
    /\ Done(1) /\ Done(2)
    /\ Values(1) = << 0, 1, 2 >>
    /\ Values(2) = << 0, 1 >>

\* C4: for N >= 1, ShardIterator::new(state, N, N) run to exhaustion emits a
\* permutation of [0, N): every index appears exactly once.
C4_Permutation ==
    \A i \in Iters :
        (Valid(i) /\ args[i].size = args[i].pos /\ Done(i)) =>
            /\ Len(Values(i)) = args[i].pos
            /\ \A v \in 0 .. (args[i].pos - 1) :
                   Cardinality({ j \in 1 .. Len(Values(i)) : Values(i)[j] = v }) = 1

\* a full run over three shards that is not the identity
C4_Witness ==
    /\ Valid(1)
    /\ args[1].pos = 3 /\ args[1].size = 3
    /\ Done(1)
    /\ Values(1) = << 2, 1, 0 >>

\* the first R calls returned a value and every later one None
C5_Shape(i) ==
    \A j \in 1 .. Len(rets[i]) :
        IF j <= args[i].size THEN IsSome(rets[i][j]) ELSE rets[i][j] = None

\* C5: a generator built with 1 <= R <= N eventually becomes exhausted, and
\* does so after exactly R values: the first R next() calls return a value and
\* the (R+1)-th returns None.
C5_ExactlyR ==
    /\ [](\A i \in Iters : Valid(i) => C5_Shape(i))
    /\ (Valid(1) ~> (Done(1) /\ Cardinality(SomeAt(1)) = args[1].size))

\* R = 2 of N = 3: two values, then None
C5_Witness ==
    /\ Valid(1)
    /\ args[1].pos = 3 /\ args[1].size = 2
    /\ Len(rets[1]) = 3
    /\ IsSome(rets[1][1]) /\ IsSome(rets[1][2]) /\ rets[1][3] = None

\* C6: ShardIterator::new with R > N panics inside new, for every state: no
\* generator is returned and no index is ever emitted.
C6_RejectsOversize ==
    \A i \in Iters :
        (status[i] # "unbuilt" /\ args[i].size > args[i].pos) =>
            /\ status[i] = "panic_new"
            /\ rets[i] = << >>

\* number of keys of the census whose sequence has index v at position k
Load(k, v) ==
    Cardinality({ s \in 1 .. Len(census.collected) : census.collected[s][k] = v })

\* C7: for R = N, as the state ranges over [0, N!), every shard index is
\* emitted (N-1)! times at each position k of the sequence.
C7_Uniform ==
    census.key = Factorial(census.count) =>
        \A k \in 1 .. census.count, v \in 0 .. (census.count - 1) :
            Load(k, v) = Factorial(census.count - 1)

\* C8: a shard count of zero is rejected at construction: ShardHasher::new(0)
\* fails, and ShardIterator::new(state, 0, R) fails for every state and R.
C8_RejectsZeroCount ==
    /\ sh.made => sh.count # 0
    /\ \A i \in Iters :
           (status[i] # "unbuilt" /\ args[i].pos = 0) => status[i] = "panic_new"

\* C9 as stated: ShardIterator::new(state, N, 0) fails for every N >= 1.
C9_RejectsZeroSize ==
    \A i \in Iters :
        (status[i] # "unbuilt" /\ args[i].size = 0 /\ args[i].pos >= 1) =>
            status[i] = "panic_new"

\* C9 as amended: ShardIterator::new(state, N, 0) with N >= 1 returns a
\* generator with min = pos = N that is exhausted from the start: every
\* next() returns None and no index is ever emitted.
C9_ZeroSizeIsEmpty ==
    \A i \in Iters :
        (status[i] # "unbuilt" /\ args[i].size = 0 /\ args[i].pos >= 1) =>
            /\ status[i] = "live"
            /\ it[i].min = args[i].pos
            /\ it[i].pos = args[i].pos
            /\ it[i].visited = << >>
            /\ \A j \in 1 .. Len(rets[i]) : rets[i][j] = None

\* a generator of size 0 over two shards, asked twice
C9_Witness ==
    /\ status[1] = "live"
    /\ args[1].size = 0 /\ args[1].pos = 2
    /\ rets[1] = << None, None >>

\* C10: once construction has succeeded no next() call fails or hangs: a
\* step that computes state mod pos has pos >= 1, and the scan stops after at
\* most |visited| increments.
C10_NextNeverFails ==
    \A i \in Iters :
        /\ status[i] # "panic_next"
        /\ (status[i] = "live" /\ ~Exhausted(it[i])) =>
               /\ it[i].pos >= 1
               /\ DeriveSteps(BaseShard(it[i].state, it[i].pos), it[i].visited)
                      <= Len(it[i].visited)

\* C11: once next() has returned None, every later next() call also returns
\* None and leaves state, pos and visited unchanged.
C11_ExhaustedIsTerminal ==
    [][\A i \in Iters : Done(i) =>
           /\ it'[i] = it[i]
           /\ status'[i] = status[i]
           /\ (rets'[i] = rets[i] \/ rets'[i] = Append(rets[i], None))]_vars

\* one value, then None twice
C11_Witness ==
    /\ status[1] = "live"
    /\ args[1].pos = 3 /\ args[1].size = 1
    /\ Len(rets[1]) = 3
    /\ IsSome(rets[1][1]) /\ rets[1][2] = None /\ rets[1][3] = None

\* the first n results of next() on the iterator `self` when it is driven alone
RECURSIVE Alone(_, _)
Alone(self, n) ==
    IF n = 0 THEN << >>
    ELSE IF Exhausted(self) THEN << None >> \o Alone(self, n - 1)
    ELSE << Some(Emitted(self)) >> \o Alone(Stepped(self), n - 1)

\* iterator i was returned by new
Built(i) == status[i] \in { "live", "panic_next" }

\* C12: two generators built from the same (state, N, R) and driven in any
\* interleaving emit identical sequences, and each emits exactly the sequence
\* it emits when driven alone.
C12_Deterministic ==
    \A a, b \in Iters :
        /\ Built(a) =>
               rets[a] = Alone(NewIterator(args[a].state, args[a].pos, args[a].size),
                               Len(rets[a]))
        /\ (Built(a) /\ Built(b) /\ args[a] = args[b]) =>
               /\ \A j \in 1 .. Min2(Len(rets[a]), Len(rets[b])) : rets[a][j] = rets[b][j]
               /\ Len(rets[a]) = Len(rets[b]) => it[a] = it[b]

\* two iterators over the same arguments, both run to None
C12_Witness ==
    /\ status[1] = "live" /\ status[2] = "live"
    /\ args[1] = [state |-> 4, pos |-> 3, size |-> 3]
    /\ args[2] = args[1]
    /\ rets[1] = << Some(1), Some(2), Some(0), None >>
    /\ rets[2] = rets[1]

\* iterator i was built from (state, N, R) and has run to None
Ran(i, state, N, R) ==
    /\ status[i] = "live"
    /\ args[i] = [state |-> state, pos |-> N, size |-> R]
    /\ Done(i)

\* C13: for state 2237, (N=7, R=1) emits [4], (N=7, R=3) emits [4, 1, 3],
\* (N=7, R=7) emits [4, 1, 3, 2, 5, 0, 6] and (N=5, R=1) emits [2]; the first
\* index is state mod N.
C13_Pinned ==
    \A i \in Iters :
        /\ Ran(i, 2237, 7, 1) => Values(i) = << 4 >>
        /\ Ran(i, 2237, 7, 3) => Values(i) = << 4, 1, 3 >>
        /\ Ran(i, 2237, 7, 7) => Values(i) = << 4, 1, 3, 2, 5, 0, 6 >>
        /\ Ran(i, 2237, 5, 1) => Values(i) = << 2 >>
        /\ (status[i] = "live" /\ args[i].state = 2237 /\ SomeAt(i) # {}) =>
               Values(i)[1] = 2237 % args[i].pos

\* the full run over seven shards has ended
C13_Witness ==
    /\ Ran(1, 2237, 7, 7)
    /\ Len(Values(1)) = 7
    /\ Ran(2, 2237, 5, 1)

\* C14: with R = N, distinct states in [0, N!) yield distinct full sequences,
\* so every permutation of [0, N) is the output of exactly one state.
C14_OneToOne ==
    \A s, t \in 1 .. Len(census.collected) :
        s # t => census.collected[s] # census.collected[t]

\* the step from the unprimed to the primed state is a next() on iterator i
\* that returned Some
Emits(i) ==
    /\ status[i] = "live"
    /\ Len(rets'[i]) = Len(rets[i]) + 1
    /\ IsSome(rets'[i][Len(rets'[i])])

\* the set of shard IDs in a Vec
Produced(visited) == { visited[k] : k \in 1 .. Len(visited) }

\* C15: in every step that emits, with candidate = state mod pos taken before
\* the update, the emitted index is the smallest value >= candidate that is
\* not among the produced indices, and exactly that value is appended.
C15_SmallestFree ==
    [][\A i \in Iters : Emits(i) =>
           LET candidate == it[i].state % it[i].pos
               v == Unwrap(rets'[i][Len(rets'[i])])
           IN  /\ v >= candidate
               /\ v \notin Produced(it[i].visited)
               /\ \A u \in candidate .. (v - 1) : u \in Produced(it[i].visited)
               /\ it'[i].visited = Append(it[i].visited, v)]_vars

\* state 0 over three shards: the second step collides on 0 and emits 1
C15_Witness ==
    /\ status[1] = "live"
    /\ args[1] = [state |-> 0, pos |-> 3, size |-> 2]
    /\ rets[1] = << Some(0), Some(1), None >>

\* iterator i was built by ShardIterator::new(state, N, R) with R <= N
Fits(i) == status[i] = "live" /\ args[i].size <= args[i].pos

\* C16: for a generator built with R <= N, N - R <= pos <= N and the number
\* of produced indices is N - pos; each step that emits decrements pos by 1,
\* replaces state by floor(state / pos), adds exactly one index to visited and
\* leaves min unchanged.
C16_Cursor ==
    /\ [](\A i \in Iters : Fits(i) =>
              /\ args[i].pos - args[i].size <= it[i].pos
              /\ it[i].pos <= args[i].pos
              /\ Len(it[i].visited) = args[i].pos - it[i].pos
              /\ it[i].min = args[i].pos - args[i].size)
    /\ [][\A i \in Iters : (Fits(i) /\ Emits(i)) =>
              /\ it'[i].pos = it[i].pos - 1
              /\ it'[i].state = it[i].state \div it[i].pos
              /\ Len(it'[i].visited) = Len(it[i].visited) + 1
              /\ SubSeq(it'[i].visited, 1, Len(it[i].visited)) = it[i].visited
              /\ it'[i].min = it[i].min]_vars

\* state 5 over three shards, size 2: after one step state 1, pos 2
C16_Witness ==
    /\ Fits(1)
    /\ args[1] = [state |-> 5, pos |-> 3, size |-> 2]
    /\ it[1] = [state |-> 1, pos |-> 2, min |-> 1, visited |-> << 2 >>]

\* C17: for a generator built with R <= N, size_hint's lower bound is at
\* most, and its upper bound at least, the number of values next() will
\* still emit (pos - min).
C17_SizeHint ==
    \A i \in Iters : Fits(i) =>
        /\ SizeHint(it[i])[1] <= it[i].pos - it[i].min
        /\ IsSome(SizeHint(it[i])[2]) =>
               Unwrap(SizeHint(it[i])[2]) >= it[i].pos - it[i].min

\* C18: when pos - size wraps, a generator built with R > N >= 1 is returned,
\* its first N next() calls emit N distinct indices in [0, N), and the
\* (N+1)-th call reaches pos = 0 and divides by zero instead of returning None.
C18_WrapRun ==
    \A i \in Iters :
        (~overflow_checks /\ status[i] # "unbuilt"
             /\ args[i].size > args[i].pos /\ args[i].pos >= 1) =>
            /\ Built(i)
            /\ Len(rets[i]) <= args[i].pos
            /\ \A j \in 1 .. Len(rets[i]) :
                   /\ IsSome(rets[i][j])
                   /\ Unwrap(rets[i][j]) \in 0 .. (args[i].pos - 1)
                   /\ \A k \in 1 .. Len(rets[i]) : k # j => rets[i][k] # rets[i][j]
            /\ it[i].pos = args[i].pos - Len(rets[i])
            /\ (status[i] = "live" /\ Len(rets[i]) = args[i].pos) => DivByZero(it[i])
            /\ status[i] = "panic_next" => Len(rets[i]) = args[i].pos

\* size 3 over two shards without overflow checks: two values, then the panic
C18_Witness ==
    /\ ~overflow_checks
    /\ args[1].pos = 2 /\ args[1].size = 3
    /\ status[1] = "panic_next"
    /\ Len(rets[1]) = 2

\* the state field before the j-th call of next() on new(state, pos, size)
RECURSIVE StateBefore(_, _, _)
StateBefore(state, pos, j) ==
    IF j <= 1 THEN state ELSE StateBefore(state \div pos, pos - 1, j - 1)

\* C19: whenever state is 0 before a step that emits, state stays 0 and the
\* step emits the smallest index not yet produced; from the first such step
\* on, the rest of the sequence is the unused indices in ascending order.
C19_EntropyExhausted ==
    /\ [][\A i \in Iters : (Emits(i) /\ it[i].state = 0) =>
              LET v == Unwrap(rets'[i][Len(rets'[i])])
              IN  /\ it'[i].state = 0
                  /\ v \notin Produced(it[i].visited)
                  /\ \A u \in 0 .. (v - 1) : u \in Produced(it[i].visited)
                  /\ Fits(i) => v < args[i].pos]_vars
    /\ [](\A i \in Iters : Built(i) =>
              \A j, k \in SomeAt(i) :
                  (j < k /\ StateBefore(args[i].state, args[i].pos, j) = 0) =>
                      Unwrap(rets[i][j]) < Unwrap(rets[i][k]))

\* state 2 over three shards: 2, then state 0 and the unused 0, 1 in order
C19_Witness ==
    /\ Fits(1)
    /\ args[1] = [state |-> 2, pos |-> 3, size |-> 3]
    /\ rets[1] = << Some(2), Some(0), Some(1) >>
    /\ it[1].state = 0

====
